---- MODULE Spec2Model ----
(***************************************************************************)
(* Model of the iNES cartridge loader of rusty-nes:                        *)
(*   src/src/cartridge.rs  NesHeader::from_bytes, Cartridge::from_file      *)
(*   src/src/main.rs       main                                             *)
(*                                                                         *)
(* A file is a byte stream.  Its first 16 bytes are kept as values; a      *)
(* buffer filled by read_exact is represented by the range [off, off+len)  *)
(* of the stream it was filled from.                                       *)
(***************************************************************************)
EXTENDS Integers, Sequences, FiniteSets, TLC

\* ------------------------------------------------------------------ bounds
\* largest program-ROM / graphics-ROM unit count drawn for a file header
MaxUnits == 2
\* largest number of command-line arguments (program name included)
MaxArgs == 2

\* --------------------------------------------------------------- constants
U8_MAX == 255
HEADER_SIZE == 16
TRAINER_SIZE == 512
PRG_UNIT_m == 8 * 1024
PRG_UNIT == 16 * 1024
CHR_UNIT == 8 * 1024
Magic == <<78, 69, 83, 26>>

None == [tag |-> "None"]
Err(m) == [tag |-> "Err", msg |-> m]

\* ------------------------------------------------- u8 operators of Rust
RECURSIVE BitAnd(_, _)
BitAnd(a, b) ==
    IF a = 0 \/ b = 0 THEN 0
    ELSE (a % 2) * (b % 2) + 2 * BitAnd(a \div 2, b \div 2)

RECURSIVE BitOr(_, _)
BitOr(a, b) ==
    IF a = 0 THEN b
    ELSE IF b = 0 THEN a
    ELSE (IF a % 2 = 1 \/ b % 2 = 1 THEN 1 ELSE 0) + 2 * BitOr(a \div 2, b \div 2)

Shr(a, n) == a \div (2 ^ n)

\* ------------------------------------------------ NesHeader::from_bytes
\* header_bytes[i] of the source is header_bytes[i + 1] here
mirroring_of_m(flags6) ==
    IF BitAnd(flags6, 1) # 0 THEN "Vertical"
    ELSE IF BitAnd(flags6, 8) # 0 THEN "FourScreen"
    ELSE "Horizontal"

mirroring_of(flags6) ==
    IF BitAnd(flags6, 8) # 0 THEN "FourScreen"
    ELSE IF BitAnd(flags6, 1) # 0 THEN "Vertical"
    ELSE "Horizontal"

mapper_number_of_m(flags6, flags7) ==
    LET mapper_lower_nibble == BitAnd(flags6, 15)
        mapper_upper_nibble == BitAnd(flags7, 240)
    IN  BitOr(mapper_upper_nibble, mapper_lower_nibble)

mapper_number_of(flags6, flags7) ==
    LET mapper_lower_nibble == Shr(flags6, 4)
        mapper_upper_nibble == BitAnd(flags7, 240)
    IN  BitOr(mapper_upper_nibble, mapper_lower_nibble)

from_bytes_sig3(header_bytes) ==
    IF SubSeq(header_bytes, 1, 3) # SubSeq(Magic, 1, 3)
    THEN Err("Not a valid iNES file format")
    ELSE LET prg_rom_size == header_bytes[5]
             chr_rom_size == header_bytes[6]
             flags6 == header_bytes[7]
             flags7 == header_bytes[8]
         IN  [tag |-> "Ok",
              header |-> [prg_rom_size |-> prg_rom_size,
                          chr_rom_size |-> chr_rom_size,
                          flags6 |-> flags6,
                          flags7 |-> flags7,
                          mapper_number |-> mapper_number_of(flags6, flags7),
                          mirroring |-> mirroring_of(flags6),
                          has_battery_backed_ram |-> BitAnd(flags6, 2) # 0,
                          has_trainer |-> BitAnd(flags6, 4) # 0,
                          four_screen_mode |-> BitAnd(flags6, 8) # 0]]

from_bytes_pad(header_bytes) ==
    IF SubSeq(header_bytes, 1, 4) # Magic
    THEN Err("Not a valid iNES file format")
    ELSE LET prg_rom_size == header_bytes[5]
             chr_rom_size == header_bytes[6]
             flags6 == header_bytes[7]
             flags7 == header_bytes[9]
         IN  [tag |-> "Ok",
              header |-> [prg_rom_size |-> prg_rom_size,
                          chr_rom_size |-> chr_rom_size,
                          flags6 |-> flags6,
                          flags7 |-> flags7,
                          mapper_number |-> mapper_number_of(flags6, flags7),
                          mirroring |-> mirroring_of(flags6),
                          has_battery_backed_ram |-> BitAnd(flags6, 2) # 0,
                          has_trainer |-> BitAnd(flags6, 4) # 0,
                          four_screen_mode |-> BitAnd(flags6, 8) # 0]]

from_bytes(header_bytes) ==
    IF SubSeq(header_bytes, 1, 4) # Magic
    THEN Err("Not a valid iNES file format")
    ELSE LET prg_rom_size == header_bytes[5]
             chr_rom_size == header_bytes[6]
             flags6 == header_bytes[7]
             flags7 == header_bytes[8]
         IN  [tag |-> "Ok",
              header |-> [prg_rom_size |-> prg_rom_size,
                          chr_rom_size |-> chr_rom_size,
                          flags6 |-> flags6,
                          flags7 |-> flags7,
                          mapper_number |-> mapper_number_of(flags6, flags7),
                          mirroring |-> mirroring_of(flags6),
                          has_battery_backed_ram |-> BitAnd(flags6, 2) # 0,
                          has_trainer |-> BitAnd(flags6, 4) # 0,
                          four_screen_mode |-> BitAnd(flags6, 8) # 0]]

\* ------------------------------------------------------------ the stream
\* Read::read_exact on the BufReader: all n bytes from position p, or an
\* UnexpectedEof error after the rest of the stream has been consumed.
read_exact_rewind(p, flen, n) ==
    IF p + n <= flen
    THEN [ok |-> TRUE, pos |-> p]
    ELSE [ok |-> FALSE, pos |-> flen]

read_exact(p, flen, n) ==
    IF p + n <= flen
    THEN [ok |-> TRUE, pos |-> p + n]
    ELSE [ok |-> FALSE, pos |-> flen]

EofText == "failed to fill whole buffer"
Vec(off, len) == [off |-> off, len |-> len]
EmptyVec == Vec(0, 0)
ZeroHeader == [i \in 1..HEADER_SIZE |-> 0]
ZeroPad == [i \in 1..8 |-> 0]

\* the 16 header bytes of a field set (layout of the iNES header)
BuildHeader(sig, prg, chr, f6, f7, pad) == sig \o <<prg, chr, f6, f7>> \o pad

Min(a, b) == IF a < b THEN a ELSE b

VARIABLES
    argc,          \* args.len() of main
    file,          \* the file named by args[1]: None or a stream
    pc,            \* position of the process
    pos,           \* position of the reader in the stream
    header_bytes,  \* from_file: header_bytes
    header,        \* from_file: header
    trainer,       \* from_file: trainer
    prg_rom,       \* from_file: prg_rom
    chr_rom,       \* from_file: chr_rom
    ret,           \* value returned by from_file
    log,           \* stages from_file has run, in order
    stdout,        \* what main reported on standard output
    stderr,        \* what main reported on standard error
    exit_code      \* exit status of the process, once it has ended

vars == <<argc, file, pc, pos, header_bytes, header, trainer, prg_rom, chr_rom,
          ret, log, stdout, stderr, exit_code>>

\* ------------------------------------------------------- input domains
BadSigs == { <<78, 69, 83, 0>>, <<0, 0, 0, 0>>, <<78, 69, 83, 27>>, <<79, 69, 83, 26>> }
FileSigs == { Magic, <<78, 69, 83, 0>> }
FileFlags6 == { 0, 1, 4, 23 }
FileFlags7 == { 0, 16 }
FileHeaders ==
    { BuildHeader(s, p, c, f6, f7, ZeroPad) :
        s \in FileSigs, p \in 0..MaxUnits, c \in 0..MaxUnits,
        f6 \in FileFlags6, f7 \in FileFlags7 }

\* stream lengths at, just below and just above every section boundary
Boundaries ==
    { 0, 4, HEADER_SIZE } \cup
    { HEADER_SIZE + t * TRAINER_SIZE + p * PRG_UNIT + c * CHR_UNIT :
        t \in 0..1, p \in 0..MaxUnits, c \in 0..MaxUnits }
FileLens == { b + d : b \in Boundaries, d \in {-1, 0, 1} } \ { -1 }

Stream(h, n) == [tag |-> "Some", len |-> n, head |-> SubSeq(h, 1, Min(n, HEADER_SIZE))]
Files == { None } \cup { Stream(h, n) : h \in FileHeaders, n \in FileLens }

Init ==
    /\ argc \in 1..MaxArgs
    /\ file \in Files
    /\ pc = "main"
    /\ pos = 0
    /\ header_bytes = ZeroHeader
    /\ header = None
    /\ trainer = None
    /\ prg_rom = EmptyVec
    /\ chr_rom = EmptyVec
    /\ ret = None
    /\ log = << >>
    /\ stdout = << >>
    /\ stderr = << >>
    /\ exit_code = None

Event(stage, off, n, ok) == [stage |-> stage, off |-> off, n |-> n, ok |-> ok]
Line(k, v) == [k |-> k, v |-> v]

\* ------------------------------------------------------------------ main
\* main.rs 8-15: argument check
MainArgs ==
    /\ pc = "main"
    /\ IF argc < 2
       THEN /\ stderr' = Append(stderr, "Usage: <path_to_rom>")
            /\ exit_code' = [tag |-> "Some", code |-> 1]
            /\ pc' = "exited"
            /\ stdout' = stdout
       ELSE /\ stdout' = Append(stdout, Line("Attempting to load ROM", 0))
            /\ pc' = "open"
            /\ UNCHANGED <<stderr, exit_code>>
    /\ UNCHANGED <<argc, file, pos, header_bytes, header, trainer, prg_rom,
                   chr_rom, ret, log>>

\* ------------------------------------------------- Cartridge::from_file
\* cartridge.rs 83-84: File::open
OpenFile ==
    /\ pc = "open"
    /\ IF file = None
       THEN /\ ret' = Err("Failed to open ROM file: No such file or directory")
            /\ pc' = "match"
       ELSE /\ pc' = "read_header"
            /\ ret' = ret
    /\ UNCHANGED <<argc, file, pos, header_bytes, header, trainer, prg_rom,
                   chr_rom, log, stdout, stderr, exit_code>>

\* cartridge.rs 86-88: read the 16 header bytes
ReadHeader ==
    /\ pc = "read_header"
    /\ LET r == read_exact(pos, file.len, HEADER_SIZE)
       IN  /\ pos' = r.pos
           /\ log' = Append(log, Event("header", pos, HEADER_SIZE, r.ok))
           /\ IF r.ok
              THEN /\ header_bytes' = SubSeq(file.head, pos + 1, pos + HEADER_SIZE)
                   /\ pc' = "decode"
                   /\ ret' = ret
              ELSE /\ ret' = Err("Failed to read iNES header: " \o EofText)
                   /\ pc' = "match"
                   /\ header_bytes' = header_bytes
    /\ UNCHANGED <<argc, file, header, trainer, prg_rom, chr_rom, stdout,
                   stderr, exit_code>>

\* cartridge.rs 93: decode the header, propagate its error
DecodeHeader ==
    /\ pc = "decode"
    /\ LET r == from_bytes(header_bytes)
       IN  /\ log' = Append(log, Event("signature", pos, 0, r.tag = "Ok"))
           /\ IF r.tag = "Ok"
              THEN /\ header' = r.header
                   /\ pc' = "trainer"
                   /\ ret' = ret
              ELSE /\ ret' = r
                   /\ pc' = "match"
                   /\ header' = header
    /\ UNCHANGED <<argc, file, pos, header_bytes, trainer, prg_rom, chr_rom,
                   stdout, stderr, exit_code>>

\* cartridge.rs 101-109: the optional trainer
TrainerStage_opt ==
    /\ pc = "trainer"
    /\ IF header.has_trainer
       THEN LET r == read_exact(pos, file.len, TRAINER_SIZE)
            IN  /\ pos' = r.pos
                /\ log' = Append(log, Event("trainer", pos, TRAINER_SIZE, r.ok))
                /\ trainer' = IF r.ok
                              THEN [tag |-> "Some", off |-> pos, len |-> TRAINER_SIZE]
                              ELSE trainer
                /\ pc' = "prg_size"
                /\ ret' = ret
       ELSE /\ pc' = "prg_size"
            /\ UNCHANGED <<pos, log, trainer, ret>>
    /\ UNCHANGED <<argc, file, header_bytes, header, prg_rom, chr_rom, stdout,
                   stderr, exit_code>>

TrainerStage ==
    /\ pc = "trainer"
    /\ IF header.has_trainer
       THEN LET r == read_exact(pos, file.len, TRAINER_SIZE)
            IN  /\ pos' = r.pos
                /\ log' = Append(log, Event("trainer", pos, TRAINER_SIZE, r.ok))
                /\ IF r.ok
                   THEN /\ trainer' = [tag |-> "Some", off |-> pos, len |-> TRAINER_SIZE]
                        /\ pc' = "prg_size"
                        /\ ret' = ret
                   ELSE /\ ret' = Err("Failed to read trainer data: " \o EofText)
                        /\ pc' = "match"
                        /\ trainer' = trainer
       ELSE /\ pc' = "prg_size"
            /\ UNCHANGED <<pos, log, trainer, ret>>
    /\ UNCHANGED <<argc, file, header_bytes, header, prg_rom, chr_rom, stdout,
                   stderr, exit_code>>

prg_rom_size_bytes == header.prg_rom_size * PRG_UNIT
chr_rom_size_bytes == header.chr_rom_size * CHR_UNIT

\* cartridge.rs 111-116: a program ROM of 0 bytes is rejected
PrgSizeCheck_skip ==
    /\ pc = "prg_size"
    /\ log' = Append(log, Event("prg_size", pos, 0, TRUE))
    /\ pc' = "read_prg"
    /\ ret' = ret
    /\ UNCHANGED <<argc, file, pos, header_bytes, header, trainer, prg_rom,
                   chr_rom, stdout, stderr, exit_code>>

PrgSizeCheck ==
    /\ pc = "prg_size"
    /\ log' = Append(log, Event("prg_size", pos, 0, prg_rom_size_bytes # 0))
    /\ IF prg_rom_size_bytes = 0
       THEN /\ ret' = Err("PRG ROM size is 0, which is invalid.")
            /\ pc' = "match"
       ELSE /\ pc' = "read_prg"
            /\ ret' = ret
    /\ UNCHANGED <<argc, file, pos, header_bytes, header, trainer, prg_rom,
                   chr_rom, stdout, stderr, exit_code>>

\* cartridge.rs 118-129: the program ROM
ReadPrg ==
    /\ pc = "read_prg"
    /\ LET r == read_exact(pos, file.len, prg_rom_size_bytes)
       IN  /\ pos' = r.pos
           /\ log' = Append(log, Event("prg", pos, prg_rom_size_bytes, r.ok))
           /\ IF r.ok
              THEN /\ prg_rom' = Vec(pos, prg_rom_size_bytes)
                   /\ pc' = "chr"
                   /\ ret' = ret
              ELSE /\ ret' = Err("Failed to read PRG ROM: " \o EofText)
                   /\ pc' = "match"
                   /\ prg_rom' = prg_rom
    /\ UNCHANGED <<argc, file, header_bytes, header, trainer, chr_rom, stdout,
                   stderr, exit_code>>

\* cartridge.rs 131-151: the optional graphics ROM, then the cartridge
ChrStage_always ==
    /\ pc = "chr"
    /\ LET r == read_exact(pos, file.len, chr_rom_size_bytes)
       IN  /\ pos' = r.pos
           /\ log' = Append(log, Event("chr", pos, chr_rom_size_bytes, r.ok))
           /\ IF r.ok
              THEN /\ chr_rom' = Vec(pos, chr_rom_size_bytes)
                   /\ ret' = [tag |-> "Ok",
                              cart |-> [header |-> header,
                                        prg_rom |-> prg_rom,
                                        chr_rom |-> Vec(pos, chr_rom_size_bytes),
                                        trainer |-> trainer]]
              ELSE /\ ret' = Err("Failed to read CHR ROM: " \o EofText)
                   /\ chr_rom' = chr_rom
    /\ pc' = "match"
    /\ UNCHANGED <<argc, file, header_bytes, header, trainer, prg_rom, stdout,
                   stderr, exit_code>>

ChrStage ==
    /\ pc = "chr"
    /\ IF chr_rom_size_bytes > 0
       THEN LET r == read_exact(pos, file.len, chr_rom_size_bytes)
            IN  /\ pos' = r.pos
                /\ log' = Append(log, Event("chr", pos, chr_rom_size_bytes, r.ok))
                /\ IF r.ok
                   THEN /\ chr_rom' = Vec(pos, chr_rom_size_bytes)
                        /\ ret' = [tag |-> "Ok",
                                   cart |-> [header |-> header,
                                             prg_rom |-> prg_rom,
                                             chr_rom |-> Vec(pos, chr_rom_size_bytes),
                                             trainer |-> trainer]]
                   ELSE /\ ret' = Err("Failed to read CHR ROM: " \o EofText)
                        /\ chr_rom' = chr_rom
       ELSE /\ chr_rom' = EmptyVec
            /\ ret' = [tag |-> "Ok",
                       cart |-> [header |-> header,
                                 prg_rom |-> prg_rom,
                                 chr_rom |-> EmptyVec,
                                 trainer |-> trainer]]
            /\ UNCHANGED <<pos, log>>
    /\ pc' = "match"
    /\ UNCHANGED <<argc, file, header_bytes, header, trainer, prg_rom, stdout,
                   stderr, exit_code>>

\* main.rs 17-41: report the outcome; main then returns
MainMatch ==
    /\ pc = "match"
    /\ IF ret.tag = "Ok"
       THEN /\ stdout' = stdout \o
                    << Line("Successfully loaded ROM!", 0),
                       Line("Actual PRG ROM size", ret.cart.prg_rom.len),
                       Line("Actual CHR ROM size", ret.cart.chr_rom.len) >> \o
                    (IF ret.cart.trainer.tag = "Some"
                     THEN << Line("Trainer present, size", ret.cart.trainer.len) >>
                     ELSE << >>)
            /\ stderr' = stderr
       ELSE /\ stderr' = Append(stderr, "Error loading ROM: " \o ret.msg)
            /\ stdout' = stdout
    /\ exit_code' = [tag |-> "Some", code |-> 0]
    /\ pc' = "exited"
    /\ UNCHANGED <<argc, file, pos, header_bytes, header, trainer, prg_rom,
                   chr_rom, ret, log>>

Next ==
    \/ MainArgs
    \/ OpenFile
    \/ ReadHeader
    \/ DecodeHeader
    \/ TrainerStage
    \/ PrgSizeCheck
    \/ ReadPrg
    \/ ChrStage
    \/ MainMatch

Spec == Init /\ [][Next]_vars

\* ------------------------------------------- the header decoder on its own
\* from_file at line 93, about to decode a 16-byte header it has just read
DecUnits == (0..MaxUnits) \cup { U8_MAX }
DecFlags6 == (0..15) \cup { 23, 240, U8_MAX }
DecFlags7 == { 0, 15, 16, U8_MAX }
Pads == { ZeroPad, [i \in 1..8 |-> U8_MAX], <<16, 0, 0, 0, 0, 0, 0, 1>> }
\* every flags6/flags7 pair under the valid signature, and every signature
\* with the sampled units, flags and padding
DecodeInput(h) ==
    \/ \E f6 \in 0..U8_MAX, f7 \in 0..U8_MAX :
          h = BuildHeader(Magic, 1, 1, f6, f7, ZeroPad)
    \/ \E s \in { Magic } \cup BadSigs, p \in DecUnits, c \in DecUnits,
          f6 \in DecFlags6, f7 \in DecFlags7, pad \in Pads :
          h = BuildHeader(s, p, c, f6, f7, pad)

InitDecode ==
    /\ argc = 2
    /\ DecodeInput(header_bytes)
    /\ file = Stream(header_bytes, HEADER_SIZE)
    /\ pc = "decode"
    /\ pos = HEADER_SIZE
    /\ header = None
    /\ trainer = None
    /\ prg_rom = EmptyVec
    /\ chr_rom = EmptyVec
    /\ ret = None
    /\ log = << Event("header", 0, HEADER_SIZE, TRUE) >>
    /\ stdout = << Line("Attempting to load ROM", 0) >>
    /\ stderr = << >>
    /\ exit_code = None

NextDecode == DecodeHeader

SpecDecode == InitDecode /\ [][NextDecode]_vars

\* ------------------------------------------------------------ properties
Bit(x, k) == (x \div (2 ^ k)) % 2 = 1
InvalidSignature == Err("Not a valid iNES file format")
ShortHeader == Err("Failed to read iNES header: failed to fill whole buffer")
ShortTrainer == Err("Failed to read trainer data: failed to fill whole buffer")
EmptyProgramRom == Err("PRG ROM size is 0, which is invalid.")
ShortProgramRom == Err("Failed to read PRG ROM: failed to fill whole buffer")
ShortGraphicsRom == Err("Failed to read CHR ROM: failed to fill whole buffer")

\* the state right after line 93 has decoded header_bytes
JustDecoded == Len(log) = 2 /\ log[2].stage = "signature" /\ pc \in { "trainer", "match" }
SignatureMatches ==
    /\ header_bytes[1] = 78 /\ header_bytes[2] = 69
    /\ header_bytes[3] = 83 /\ header_bytes[4] = 26
\* from_bytes has returned a header
Decoded == Len(log) >= 2 /\ log[2].stage = "signature" /\ log[2].ok

\* C1: from_bytes fails with the invalid-signature error exactly when bytes
\* 0..3 differ from 4E 45 53 1A; the failure carries no header, and a matching
\* signature yields a header whatever bytes 4..15 are.
C1_SignatureIffError ==
    JustDecoded =>
        /\ (ret = InvalidSignature) <=> ~SignatureMatches
        /\ ~SignatureMatches =>
              /\ header = None
              /\ DOMAIN ret = { "tag", "msg" }
              /\ pc = "match"
        /\ SignatureMatches =>
              /\ ret = None
              /\ pc = "trainer"
              /\ header.prg_rom_size = header_bytes[5]

C1_Witness ==
    /\ JustDecoded
    /\ header_bytes[1] = 78 /\ header_bytes[2] = 69 /\ header_bytes[3] = 83
    /\ header_bytes[4] = 0
    /\ ret = InvalidSignature

C3_MapperNumber ==
    Decoded =>
        /\ header.mapper_number =
              16 * (header_bytes[8] \div 16) + (header_bytes[7] \div 16)
        /\ header.mapper_number \in 0..255
        /\ (header_bytes[7] = 23 /\ header_bytes[8] = 16) => header.mapper_number = 17

C3_Witness ==
    /\ Decoded
    /\ header_bytes[7] = 23 /\ header_bytes[8] = 16
    /\ header.mapper_number = 17

Returned == ret.tag # "None"
Opened == file.tag = "Some" /\ pc \notin { "main", "open" }
\* the header as it stands in the file
ValidHeader ==
    /\ file.tag = "Some"
    /\ file.len >= 16
    /\ file.head[1] = 78 /\ file.head[2] = 69 /\ file.head[3] = 83 /\ file.head[4] = 26
PrgUnits == file.head[5]
ChrUnits == file.head[6]
HasTrainer == Bit(file.head[7], 2)
TrainerBytes == IF HasTrainer THEN 512 ELSE 0

\* C5 as stated: a valid signature and prg_units = 0 always give the
\* empty-program-ROM error.
C5_Original ==
    (Returned /\ ValidHeader /\ PrgUnits = 0) => ret = EmptyProgramRom

\* C5 amended: a valid signature and prg_units = 0 give the empty-program-ROM
\* error, even with no byte after the header, when has_trainer is clear or at
\* least 512 bytes follow the header.
C5_EmptyProgramRom ==
    (Returned /\ ValidHeader /\ PrgUnits = 0
        /\ (HasTrainer => file.len - 16 >= 512))
    => ret = EmptyProgramRom

C5_Witness ==
    /\ Returned /\ ValidHeader /\ PrgUnits = 0
    /\ file.len = 16
    /\ ret = EmptyProgramRom

\* C6: a valid signature with has_trainer set and fewer than 512 bytes after
\* the header gives the trainer-stage short read, and no cartridge.
C6_TrainerShortRead ==
    (Returned /\ ValidHeader /\ HasTrainer /\ file.len - 16 < 512)
    => /\ ret = ShortTrainer
       /\ ret.tag # "Ok"
       /\ trainer = None

C6_Witness ==
    /\ pc = "match" /\ ValidHeader /\ HasTrainer
    /\ file.len = 16 + 511
    /\ ret = ShortTrainer

\* C7: a returned cartridge has a trainer iff has_trainer, of 512 bytes; a
\* non-empty prg_rom of prg_units * 16384 bytes; a chr_rom of
\* chr_units * 8192 bytes; the three are consecutive ranges of the stream
\* from offset 16.
C7_CartridgeShape ==
    ret.tag = "Ok" =>
        LET c == ret.cart
            t == IF c.header.has_trainer THEN 512 ELSE 0
        IN  /\ c.header = from_bytes(file.head).header
            /\ (c.trainer.tag = "Some") <=> c.header.has_trainer
            /\ c.trainer.tag = "Some" => (c.trainer.off = 16 /\ c.trainer.len = 512)
            /\ c.prg_rom.len = c.header.prg_rom_size * 16384
            /\ c.prg_rom.len > 0
            /\ c.prg_rom.off = 16 + t
            /\ c.chr_rom.len = c.header.chr_rom_size * 8192
            /\ c.chr_rom.len > 0 => c.chr_rom.off = 16 + t + c.prg_rom.len
            /\ 16 + t + c.prg_rom.len + c.chr_rom.len <= file.len

C7_Witness ==
    /\ ret.tag = "Ok"
    /\ ret.cart.trainer.tag = "Some"
    /\ ret.cart.header.prg_rom_size = 2
    /\ ret.cart.chr_rom.len = 8192
    /\ ret.cart.chr_rom.off = 16 + 512 + 32768

\* C8: with chr_units = 0 and no byte after the program ROM the load
\* succeeds with an empty chr_rom; with chr_units = 0 nothing is read after
\* the program ROM.
C8_NoGraphicsRom ==
    (Returned /\ ValidHeader /\ ChrUnits = 0) =>
        /\ \A i \in DOMAIN log : log[i].stage # "chr"
        /\ (PrgUnits >= 1 /\ file.len = 16 + TrainerBytes + PrgUnits * 16384) =>
              /\ ret.tag = "Ok"
              /\ ret.cart.chr_rom.len = 0
              /\ log[Len(log)].stage = "prg"
              /\ pos = file.len

C8_Witness ==
    /\ pc = "match" /\ ValidHeader /\ ChrUnits = 0 /\ PrgUnits = 1
    /\ file.len = 16 + TrainerBytes + 16384
    /\ ret.tag = "Ok"
    /\ ret.cart.chr_rom.len = 0

\* C9: when the load fails, the process reports a message and ends with a
\* non-zero exit status.
C9_FailureExitsNonZero ==
    (pc = "exited" /\ ret.tag = "Err") =>
        /\ Len(stderr) > 0
        /\ exit_code.code # 0

\* ---- C10
Rank(stage) ==
    CASE stage = "header" -> 1
      [] stage = "signature" -> 2
      [] stage = "trainer" -> 3
      [] stage = "prg_size" -> 4
      [] stage = "prg" -> 5
      [] stage = "chr" -> 6

\* the outcome the stated stage order gives for the file
FirstFailure ==
    IF file.len < 16 THEN ShortHeader
    ELSE IF ~ValidHeader THEN InvalidSignature
    ELSE IF HasTrainer /\ file.len < 16 + 512 THEN ShortTrainer
    ELSE IF PrgUnits = 0 THEN EmptyProgramRom
    ELSE IF file.len < 16 + TrainerBytes + PrgUnits * 16384 THEN ShortProgramRom
    ELSE IF ChrUnits > 0
            /\ file.len < 16 + TrainerBytes + PrgUnits * 16384 + ChrUnits * 8192
         THEN ShortGraphicsRom
    ELSE None

StagesInOrder ==
    /\ \A i \in DOMAIN log : i > 1 => Rank(log[i - 1].stage) < Rank(log[i].stage)
    /\ \A i \in DOMAIN log : i < Len(log) => log[i].ok
    /\ \A i \in DOMAIN log :
          /\ log[i].stage = "trainer" => header.has_trainer
          /\ log[i].stage = "chr" => header.chr_rom_size > 0
    /\ Len(log) >= 1 => (log[1].stage = "header" /\ log[1].off = 0)
    \* consecutive reads: each starts where the one before it ended
    /\ \A i \in DOMAIN log : i > 1 => log[i].off = log[i - 1].off + log[i - 1].n
    /\ Len(log) >= 1 =>
          pos = (IF log[Len(log)].n > 0 /\ ~log[Len(log)].ok THEN file.len
                 ELSE log[Len(log)].off + log[Len(log)].n)

OutcomeIsFirstFailure ==
    (Returned /\ Opened) =>
        /\ FirstFailure # None => ret = FirstFailure
        /\ FirstFailure = None => ret.tag = "Ok"
        /\ ret.tag = "Err" =>
              /\ DOMAIN ret = { "tag", "msg" }
              /\ ~log[Len(log)].ok
        /\ ret = InvalidSignature => (pos = 16 /\ Len(log) = 2)
        /\ file.len < 16 => Len(log) = 1

====
